---- MODULE Spec2Model ----
(***************************************************************************)
(* State-machine model of the image background remover's request handling: *)
(* identity resolution (session + signed guest cookie), the guest-to-      *)
(* authenticated merge transaction, the ownership gate, the authenticated  *)
(* content proxy, and the upload / rename / delete / list handlers; and of  *)
(* the processing pipeline: the step contract, the retry policy of the     *)
(* background-removal step and the sequential, fail-fast execute.          *)
(*                                                                         *)
(* Every request is handled in a slot.  A handler is cut into steps at the *)
(* awaits that touch shared state (database statements, blob operations);  *)
(* steps of different slots interleave freely.                             *)
(***************************************************************************)
EXTENDS Integers, Sequences, FiniteSets, TLC

\* ------------------------------------------------------------------------
\* Bounds and value domains
\* ------------------------------------------------------------------------

\* Number of uploads that may reach blob storage (conversion / record ids).
MaxUploads == 2
\* Number of requests served in one behaviour of interleaved requests.
MaxRequests == 4
\* Number of requests served in one behaviour of requests taken in turn.
MaxSeqRequests == 3

AuthIds == {"u1"}
GuestIds == {"g1", "g2"}
Slots == {"s1", "s2"}
None == "none"

\* Path ids (randomUUID in the upload route) and record ids (database uuid).
PathIds == 1..MaxUploads
RecIds == 1..MaxUploads
\* 0 stands for the empty id string.
EmptyId == 0
\* A non-empty id whose value has not been read yet.
SomeId == -1

MAX_NAME_LENGTH == 255

\* File names / display names are character sequences.
LongName == [i \in 1..(MAX_NAME_LENGTH + 1) |-> "x"]
PatchNames == {<< >>, <<" ">>, <<"b">>, <<" ", "b", " ">>, LongName}

ALLOWED_MIME_TYPES == {"image/jpeg", "image/jpg", "image/png", "image/webp",
                       "image/gif", "image/avif", "image/tiff",
                       "image/svg+xml", "image/heic"}

\* Files offered to the upload route: none, a wrong type, an empty file,
\* and a valid JPEG.
NoFile == [present |-> FALSE, type |-> "none", size |-> 0, name |-> << >>]
UploadFiles == {NoFile,
                [present |-> TRUE, type |-> "text/plain", size |-> 500, name |-> <<"a">>],
                [present |-> TRUE, type |-> "image/jpeg", size |-> 0, name |-> <<"a">>],
                [present |-> TRUE, type |-> "image/jpeg", size |-> 500, name |-> <<"a">>]}

MAX_FILE_SIZE_BYTES == 20 * 1024 * 1024

\* ------------------------------------------------------------------------
\* Guest cookie (signed JWT)
\* ------------------------------------------------------------------------

NoCookie == [present |-> FALSE, sub |-> None, isGuest |-> FALSE, sigOk |-> FALSE, expired |-> FALSE]

\* createGuestCookie: { sub: userId, isGuest: true }, HS256, expires in 1y.
createGuestCookie(userId) ==
    [present |-> TRUE, sub |-> userId, isGuest |-> TRUE, sigOk |-> TRUE, expired |-> FALSE]

\* readGuestCookie, with a plausible slip: expiry is not checked.
readGuestCookieNoExpiry(token) ==
    IF ~token.present THEN None
    ELSE IF ~token.sigOk THEN None
    ELSE IF token.isGuest /\ token.sub # None THEN token.sub
    ELSE None

\* readGuestCookie: missing token -> null; jwtVerify throws on a bad
\* signature or an expired token -> caught -> null; payload without the
\* guest marker -> null.
readGuestCookie(token) ==
    IF ~token.present THEN None
    ELSE IF ~token.sigOk \/ token.expired THEN None
    ELSE IF token.isGuest /\ token.sub # None THEN token.sub
    ELSE None

\* ------------------------------------------------------------------------
\* resolveUser (decision part; the merge itself is run by the handler steps)
\* ------------------------------------------------------------------------

NoUser == [userId |-> None, isGuest |-> FALSE, shouldClearGuestCookie |-> FALSE, merge |-> FALSE]

\* resolveUser with a plausible slip: the clear-cookie signal is dropped.
resolveUserNoClear(sessionId, guestUserId) ==
    IF sessionId # None
    THEN IF guestUserId # None
         THEN [userId |-> sessionId, isGuest |-> FALSE, shouldClearGuestCookie |-> FALSE, merge |-> TRUE]
         ELSE [userId |-> sessionId, isGuest |-> FALSE, shouldClearGuestCookie |-> FALSE, merge |-> FALSE]
    ELSE IF guestUserId # None
         THEN [userId |-> guestUserId, isGuest |-> TRUE, shouldClearGuestCookie |-> FALSE, merge |-> FALSE]
         ELSE NoUser

\* resolveUser: the four-row table.  merge = TRUE means mergeGuestUser
\* (guestUserId, sessionId) is awaited before the result is returned.
resolveUser(sessionId, guestUserId) ==
    IF sessionId # None
    THEN IF guestUserId # None
         THEN [userId |-> sessionId, isGuest |-> FALSE, shouldClearGuestCookie |-> TRUE, merge |-> TRUE]
         ELSE [userId |-> sessionId, isGuest |-> FALSE, shouldClearGuestCookie |-> FALSE, merge |-> FALSE]
    ELSE IF guestUserId # None
         THEN [userId |-> guestUserId, isGuest |-> TRUE, shouldClearGuestCookie |-> FALSE, merge |-> FALSE]
         ELSE NoUser

\* ------------------------------------------------------------------------
\* Records, blob addresses, responses
\* ------------------------------------------------------------------------

\* Address returned by the blob store for a stored object.
BlobUrl(folder, pathId) == <<"blob", folder, pathId>>
\* Proxy URL derived from the record id.
ProxyUrl(which, id) == <<"proxy", which, id>>
NoUrl == <<"none", "none", 0>>

BlobAddrs == {BlobUrl(f, n) : f \in {"originals", "images"}, n \in PathIds}

NoConv == [id |-> EmptyId, userId |-> None, name |-> << >>,
           originalBlobUrl |-> NoUrl, processedBlobUrl |-> NoUrl,
           originalContentType |-> "none", processedContentType |-> "none",
           createdAt |-> 0]

\* toProcessedImage with a plausible slip: the stored blob URLs are passed on.
toProcessedImageBlob(conversion) ==
    [id |-> conversion.id,
     url |-> conversion.processedBlobUrl,
     originalUrl |-> conversion.originalBlobUrl,
     name |-> conversion.name,
     createdAt |-> conversion.createdAt]

\* toProcessedImage: the public projection of a record.
toProcessedImage(conversion) ==
    [id |-> conversion.id,
     url |-> ProxyUrl("processed", conversion.id),
     originalUrl |-> ProxyUrl("original", conversion.id),
     name |-> conversion.name,
     createdAt |-> conversion.createdAt]

NoBytes == NoUrl
NoResp == [status |-> 0, code |-> "none", items |-> << >>, bytes |-> NoBytes,
           contentType |-> "none", filename |-> << >>,
           clear |-> FALSE, setCookie |-> None]

\* errorResponse(message, code, status): the JSON failure envelope.
errorResponse(code, status) ==
    [NoResp EXCEPT !.status = status, !.code = code]

\* successResponse(data, status): the JSON success envelope.
successResponse(items, status) ==
    [NoResp EXCEPT !.status = status, !.code = "OK", !.items = items]

\* maybeClearGuestCookie / clearGuestCookie on a response.
maybeClearGuestCookie(response, shouldClear) ==
    IF shouldClear THEN [response EXCEPT !.clear = TRUE] ELSE response

\* ------------------------------------------------------------------------
\* Ownership gate
\* ------------------------------------------------------------------------

\* The id check that precedes identity resolution.
IdCheck(conversionId) == IF conversionId = EmptyId THEN "ID_REQUIRED" ELSE "OK"

\* The gate with a plausible slip: the ownership comparison is missing.
OwnershipGateNoOwner(user, conversion) ==
    IF user.userId = None THEN "UNAUTHORIZED"
    ELSE IF conversion = NoConv THEN "NOT_FOUND"
    ELSE "OK"

\* The gate with a plausible slip: a foreign record is reported as missing.
OwnershipGateHide(user, conversion) ==
    IF user.userId = None THEN "UNAUTHORIZED"
    ELSE IF conversion = NoConv \/ conversion.userId # user.userId THEN "NOT_FOUND"
    ELSE "OK"

\* authorizeConversionAccess after the id check: 401, then 404, then 403.
OwnershipGate(user, conversion) ==
    IF user.userId = None THEN "UNAUTHORIZED"
    ELSE IF conversion = NoConv THEN "NOT_FOUND"
    ELSE IF conversion.userId # user.userId THEN "FORBIDDEN"
    ELSE "OK"

GateStatus(code) ==
    CASE code = "ID_REQUIRED" -> 400
      [] code = "UNAUTHORIZED" -> 401
      [] code = "NOT_FOUND" -> 404
      [] code = "FORBIDDEN" -> 403
      [] OTHER -> 200

\* ------------------------------------------------------------------------
\* Repository and merge transaction
\* ------------------------------------------------------------------------

\* Whether the store itself rejects a record whose userId names no user
\* (and a user deletion that would leave such a record).  The relational
\* schema is not among the sources; the specification attributes the
\* "never orphaned" invariant to the ordering inside Merge alone.
OwnerReferenceEnforced == FALSE

\* findById: the record, or null.
findById(cv, id) == IF id \in DOMAIN cv THEN cv[id] ELSE NoConv

\* reassignUser: the rows matched by updateMany({ where: { userId: from } }).
reassignUser(cv, fromUserId) == {r \in DOMAIN cv : cv[r].userId = fromUserId}

\* Plausible slips of the updateMany: it writes a second column, or it has
\* no where clause.
ApplyReassignRenamed(cv, rows, toUserId) ==
    [r \in DOMAIN cv |-> IF r \in rows THEN [cv[r] EXCEPT !.userId = toUserId, !.name = << >>]
                         ELSE cv[r]]

ApplyReassignAll(cv, rows, toUserId) ==
    [r \in DOMAIN cv |-> [cv[r] EXCEPT !.userId = toUserId]]

\* Effect of the updateMany on the matched rows once the transaction commits.
ApplyReassign(cv, rows, toUserId) ==
    [r \in DOMAIN cv |-> IF r \in rows THEN [cv[r] EXCEPT !.userId = toUserId] ELSE cv[r]]

\* tx.user.delete({ where: { id, isGuest: true } }): does a row match?
GuestUserFound(us, guestUserId) == guestUserId \in us /\ guestUserId \in GuestIds

\* The catch clause with a plausible slip: every error is rethrown.
MergeCatchRethrow(code) == "rethrow"

\* The catch clause of mergeGuestUser: P2025 is swallowed, the rest rethrown.
MergeCatch(code) == IF code = "P2025" THEN "swallow" ELSE "rethrow"

\* mergeGuestUser run without interleaving: the resulting store and whether
\* the call threw.
mergeGuestUser(cv, us, guestUserId, authenticatedUserId) ==
    LET rows == reassignUser(cv, guestUserId) IN
    IF GuestUserFound(us, guestUserId)
    THEN [conv |-> ApplyReassign(cv, rows, authenticatedUserId),
          users |-> us \ {guestUserId}, threw |-> FALSE]
    ELSE [conv |-> cv, users |-> us, threw |-> MergeCatch("P2025") = "rethrow"]

\* ------------------------------------------------------------------------
\* Processing pipeline
\* ------------------------------------------------------------------------

\* Longest step list a pipeline is constructed from.
MaxSteps == 3
\* Longest script of upstream replies given to a pipeline run.
MaxScript == 3

\* The name of each step class (readonly name).
FormatNormalizationName == "format-normalization"
BackgroundRemovalName == "background-removal"
HorizontalFlipName == "horizontal-flip"
StepNames == {FormatNormalizationName, BackgroundRemovalName, HorizontalFlipName}

\* An image buffer: how it is encoded and the transformations that produced
\* it, oldest first ("corrupt" is any content sharp cannot decode).
Buffer(format, ops) == [format |-> format, ops |-> ops]
NoBuffer == Buffer("none", << >>)
Images == {Buffer("jpeg", << >>), Buffer("corrupt", << >>)}

\* new PipelineStepError(stepName, code, statusCode, message).
PipelineStepError(stepName, code, statusCode) ==
    [typed |-> TRUE, stepName |-> stepName, code |-> code, statusCode |-> statusCode]
\* Any other thrown value (a TypeError of fetch, a stream error).
UntypedError == [typed |-> FALSE, stepName |-> "none", code |-> "Error", statusCode |-> 0]
NoError == [typed |-> FALSE, stepName |-> "none", code |-> "none", statusCode |-> 0]

\* The outcome of step.process: the buffer returned or the error thrown,
\* the upstream replies not yet consumed, the upstream calls made and the
\* delays slept between them.
Returned(buffer, rest, calls, delays) ==
    [ok |-> TRUE, buffer |-> buffer, error |-> NoError, rest |-> rest,
     calls |-> calls, delays |-> delays]
Thrown(error, rest, calls, delays) ==
    [ok |-> FALSE, buffer |-> NoBuffer, error |-> error, rest |-> rest,
     calls |-> calls, delays |-> delays]

\* FormatNormalizationStep.process: sharp(image).png().toBuffer().
FormatNormalizationStep(image, script) ==
    IF image.format = "corrupt"
    THEN Thrown(PipelineStepError(FormatNormalizationName, "NORMALIZATION_FAILED", 400),
                script, 0, << >>)
    ELSE Returned(Buffer("png", Append(image.ops, "png")), script, 0, << >>)

\* HorizontalFlipStep.process: sharp(image).flop().png().toBuffer().
HorizontalFlipStep(image, script) ==
    IF image.format = "corrupt"
    THEN Thrown(PipelineStepError(HorizontalFlipName, "FLIP_FAILED", 500), script, 0, << >>)
    ELSE Returned(Buffer("png", Append(image.ops, "flop")), script, 0, << >>)

\* What one call of the remove.bg endpoint can do: fetch rejects, or a
\* response arrives with a status and a body that can or cannot be read.
NetworkFailure == [kind |-> "throw", status |-> 0, body |-> FALSE]
Response(status, body) == [kind |-> "response", status |-> status, body |-> body]
HttpStatuses == {200, 400, 401, 402, 403, 429, 500, 501, 502, 503, 504}
Replies == {NetworkFailure} \cup {Response(st, b) : st \in HttpStatuses, b \in BOOLEAN}
\* One reply of each kind the pipeline as a whole can tell apart: success,
\* an error that is not retried, an error that is.
CoarseReplies == {Response(200, TRUE), Response(402, TRUE), Response(503, TRUE)}

\* response.ok
ResponseOk(response) == response.status \in 200..299

\* The reply to the next upstream call; the upstream answers 200 once the
\* script is used up.
NextReply(script) == IF script = << >> THEN Response(200, TRUE) ELSE Head(script)
RestOf(script) == IF script = << >> THEN << >> ELSE Tail(script)

\* BackgroundRemovalStep: retry policy.
maxRetries == 2
retryDelayMs == 1000

\* new PipelineStepError(this.name, ...) inside BackgroundRemovalStep.
BgErrorUnnamed(code, statusCode) == PipelineStepError("", code, statusCode)

BgError(code, statusCode) == PipelineStepError(BackgroundRemovalName, code, statusCode)

\* handleErrorResponse: the error thrown for a response that is not ok.  An
\* unreadable error body only changes the message.
handleErrorResponseOther(response) ==
    CASE response.status = 400 -> BgError("BG_REMOVAL_INVALID_IMAGE", 400)
      [] response.status \in {402, 403} -> BgError("BG_REMOVAL_QUOTA_EXCEEDED", 502)
      [] response.status = 429 -> BgError("BG_REMOVAL_RATE_LIMITED", 502)
      [] response.status \in {500, 502, 503, 504} ->
             BgError("BG_REMOVAL_SERVICE_UNAVAILABLE", 502)
      [] OTHER -> BgError("BG_REMOVAL_ERROR", 502)

handleErrorResponse(response) ==
    CASE response.status = 400 -> BgError("BG_REMOVAL_INVALID_IMAGE", 400)
      [] response.status \in {402, 403} -> BgError("BG_REMOVAL_QUOTA_EXCEEDED", 502)
      [] response.status = 429 -> BgError("BG_REMOVAL_RATE_LIMITED", 502)
      [] response.status \in {500, 502, 503, 504} ->
             BgError("BG_REMOVAL_SERVICE_UNAVAILABLE", 502)
      [] OTHER -> BgError("BG_REMOVAL_FAILED", 502)

\* removeBackground: one upstream call.  Whatever the try block throws that
\* is not a PipelineStepError leaves as BG_REMOVAL_NETWORK_ERROR.
removeBackground(image, reply) ==
    LET tried ==
            IF reply.kind = "throw" THEN Thrown(UntypedError, << >>, 1, << >>)
            ELSE IF ~ResponseOk(reply) THEN Thrown(handleErrorResponse(reply), << >>, 1, << >>)
            ELSE IF ~reply.body THEN Thrown(UntypedError, << >>, 1, << >>)
            ELSE Returned(Buffer("png", Append(image.ops, "nobg")), << >>, 1, << >>)
    IN
    IF tried.ok \/ tried.error.typed THEN tried
    ELSE Thrown(BgError("BG_REMOVAL_NETWORK_ERROR", 502), << >>, 1, << >>)

\* isRetryableError
isRetryableErrorAny(error) == TRUE

isRetryableError(error) ==
    error.code \in {"BG_REMOVAL_NETWORK_ERROR", "BG_REMOVAL_SERVICE_UNAVAILABLE",
                    "BG_REMOVAL_RATE_LIMITED"}

\* The loop of BackgroundRemovalStep.process from the given attempt on.
RECURSIVE processFrom(_, _, _, _)
processFrom(image, script, attempt, delays) ==
    IF attempt > maxRetries
    THEN Thrown(BgError("BG_REMOVAL_FAILED", 500), script, attempt, delays)
    ELSE LET r == removeBackground(image, NextReply(script))
             rest == RestOf(script)
         IN
         IF r.ok THEN Returned(r.buffer, rest, attempt + 1, delays)
         ELSE IF r.error.typed
         THEN IF ~isRetryableError(r.error) \/ attempt = maxRetries
              THEN Thrown(r.error, rest, attempt + 1, delays)
              ELSE processFrom(image, rest, attempt + 1,
                               Append(delays, retryDelayMs * (attempt + 1)))
         ELSE Thrown(BgError("BG_REMOVAL_UNEXPECTED_ERROR", 500), rest, attempt + 1, delays)

\* BackgroundRemovalStep.process
process(image, script) == processFrom(image, script, 0, << >>)

\* step.process for the step of the given name.
stepProcess(name, image, script) ==
    CASE name = FormatNormalizationName -> FormatNormalizationStep(image, script)
      [] name = BackgroundRemovalName -> process(image, script)
      [] name = HorizontalFlipName -> HorizontalFlipStep(image, script)

\* new ImageProcessingPipeline(steps): throws on an empty list.
ImageProcessingPipelineAny(steps) == "OK"

ImageProcessingPipeline(steps) == IF Len(steps) = 0 THEN "Error" ELSE "OK"

\* The for loop of ImageProcessingPipeline.execute from step i on: log is
\* the list of steps invoked so far, calls the upstream calls made so far.
RECURSIVE executeFrom(_, _, _, _, _, _)
executeFromContinue(steps, i, result, script, log, calls) ==
    IF i > Len(steps)
    THEN [ok |-> TRUE, buffer |-> result, error |-> NoError, log |-> log, calls |-> calls]
    ELSE LET r == stepProcess(steps[i], result, script) IN
         IF r.ok
         THEN executeFrom(steps, i + 1, r.buffer, r.rest, Append(log, steps[i]), calls + r.calls)
         ELSE [executeFrom(steps, i + 1, result, r.rest, Append(log, steps[i]), calls + r.calls)
                  EXCEPT !.ok = FALSE, !.buffer = NoBuffer, !.error = r.error]

executeFrom(steps, i, result, script, log, calls) ==
    IF i > Len(steps)
    THEN [ok |-> TRUE, buffer |-> result, error |-> NoError, log |-> log, calls |-> calls]
    ELSE LET r == stepProcess(steps[i], result, script) IN
         IF r.ok
         THEN executeFrom(steps, i + 1, r.buffer, r.rest, Append(log, steps[i]), calls + r.calls)
         ELSE [ok |-> FALSE, buffer |-> NoBuffer, error |-> r.error,
               log |-> Append(log, steps[i]), calls |-> calls + r.calls]

\* ImageProcessingPipeline.execute
executeSkipFirst(steps, image, script) == executeFrom(steps, 2, image, script, << >>, 0)

execute(steps, image, script) == executeFrom(steps, 1, image, script, << >>, 0)

\* The pipeline of the upload route, and the uploads it is run on here: a
\* decodable or an undecodable image, an upstream that answers 200 or 402.
UploadSteps == <<FormatNormalizationName, BackgroundRemovalName, HorizontalFlipName>>
UploadScripts == {<<Response(200, TRUE)>>, <<Response(402, TRUE)>>}

\* ------------------------------------------------------------------------
\* State
\* ------------------------------------------------------------------------

VARIABLES
    users,      \* ids of the rows of the user table
    everGuest,  \* guest ids ever generated (randomUUID never repeats)
    tokens,     \* guest ids whose signed cookie was sent to a client
    held,       \* guest ids whose cookie a client still holds (not cleared)
    conv,       \* the conversion table: record id -> record
    blobs,      \* addresses present in the blob store
    nextPath,   \* next conversionId generated by the upload route
    nextRec,    \* next record id generated by the database
    pc,         \* per slot: position of the handler
    req,        \* per slot: the request being handled
    loc,        \* per slot: the handler's local variables
    resp,       \* per slot: the response returned (NoResp while running)
    started,    \* number of requests received so far
    run         \* the pipeline run under test: its inputs, phase and outcome

vars == <<users, everGuest, tokens, held, conv, blobs, nextPath, nextRec, pc, req, loc, resp, started, run>>

Kinds == {"upload", "list", "get", "patch", "delete", "original", "processed"}
GatedKinds == {"get", "patch", "delete", "original", "processed"}

NoBody == [kind |-> "none", name |-> << >>]
\* What request.json() gives: it throws ("badjson"), or the body is the JSON
\* value null, an object without a name, an object whose name is not a
\* string, or an object with a string name.
PatchBodies == {[kind |-> "badjson", name |-> << >>], [kind |-> "null", name |-> << >>],
                [kind |-> "noname", name |-> << >>], [kind |-> "nonstring", name |-> << >>]}
                \cup {[kind |-> "name", name |-> n] : n \in PatchNames}

NoReq == [kind |-> "none", id |-> EmptyId, session |-> None, cookie |-> NoCookie,
          file |-> NoFile, body |-> NoBody]

\* mergeResult: "none", or how the merge of this request ended: "committed",
\* "swallowed" (P2025), "failed" (the database failed), "threw" (any other
\* error rethrown).  raced: another request was inside the merge of the
\* same guest when this one started.  arrived: the records the guest of a
\* merging request owned when the request arrived.
NoLoc == [user |-> NoUser, guestUserId |-> None, txRows |-> {}, conversion |-> NoConv,
          newGuest |-> None, path |-> 0, name |-> << >>,
          mergeResult |-> "none", raced |-> FALSE, ran |-> << >>, arrived |-> {}]

\* Cookies a client can present: none, a cookie it was sent, that cookie
\* after its expiry, a token with a foreign signature, and a token that
\* verifies but does not carry the guest marker.
CookieInputs ==
    {NoCookie}
    \cup {createGuestCookie(g) : g \in tokens}
    \cup {[createGuestCookie(g) EXCEPT !.expired = TRUE] : g \in tokens}
    \cup {[createGuestCookie(g) EXCEPT !.sigOk = FALSE] : g \in GuestIds}
    \cup {[createGuestCookie(g) EXCEPT !.isGuest = FALSE] : g \in tokens}

\* Cookies of clients that follow Set-Cookie: none, or a cookie the client
\* was sent and has not been told to clear, possibly expired by now.
CookieInputsSent ==
    {NoCookie}
    \cup {createGuestCookie(g) : g \in held}
    \cup {[createGuestCookie(g) EXCEPT !.expired = TRUE] : g \in held}

\* A pipeline run: what is run (a pipeline or the background-removal step
\* alone), its inputs, how far it got and what it gave.
NoOut == [ok |-> FALSE, buffer |-> NoBuffer, error |-> NoError, log |-> << >>, calls |-> 0]
NoRun == [unit |-> "none", phase |-> "none", steps |-> << >>, image |-> NoBuffer,
          script |-> << >>, out |-> NoOut]

InitStore ==
    /\ users = AuthIds
    /\ everGuest = {}
    /\ tokens = {}
    /\ held = {}
    /\ conv = << >>
    /\ blobs = {}
    /\ nextPath = 1
    /\ nextRec = 1
    /\ pc = [s \in Slots |-> "idle"]
    /\ req = [s \in Slots |-> NoReq]
    /\ loc = [s \in Slots |-> NoLoc]
    /\ resp = [s \in Slots |-> NoResp]
    /\ started = 0

Init == InitStore /\ run = NoRun

\* The handler position that follows resolveUser.
AfterResolve(kind) ==
    CASE kind = "upload" -> "uploadBegin"
      [] kind = "list" -> "list"
      [] OTHER -> "lookup"

\* The code of the 500 response produced by each route's catch-all.
CatchAllCode(kind) ==
    CASE kind = "get" -> "RETRIEVAL_ERROR"
      [] kind = "patch" -> "UPDATE_ERROR"
      [] kind = "delete" -> "DELETION_ERROR"
      [] kind = "list" -> "LIST_ERROR"
      [] kind = "upload" -> "INTERNAL_ERROR"
      [] OTHER -> "FILE_RETRIEVAL_ERROR"

\* What is left of a request once its response is out: its kind, id and body.
Served(r) == [NoReq EXCEPT !.kind = r.kind, !.id = r.id, !.body = r.body]

\* The slot returns its response; the handler's locals die with it (the
\* merge it ran, if any, is kept for reference: guest, outcome, raced).
RespondTo(s, q, r, mergeResult) ==
    /\ resp' = [resp EXCEPT ![s] = r]
    /\ pc' = [pc EXCEPT ![s] = "done"]
    /\ req' = [req EXCEPT ![s] = Served(q)]
    /\ loc' = [loc EXCEPT ![s] =
          IF mergeResult = "none" THEN NoLoc
          ELSE [NoLoc EXCEPT !.mergeResult = mergeResult,
                             !.guestUserId = loc[s].guestUserId,
                             !.raced = loc[s].raced]]

Respond(s, r, mergeResult) == RespondTo(s, req[s], r, mergeResult)

\* validateImageFile plus the missing-file check of the upload route.
validateImageFile(file) ==
    IF ~file.present THEN "FILE_REQUIRED"
    ELSE IF file.size > MAX_FILE_SIZE_BYTES THEN "INVALID_FILE"
    ELSE IF file.size = 0 THEN "INVALID_FILE"
    ELSE IF file.type \notin ALLOWED_MIME_TYPES THEN "INVALID_FILE"
    ELSE "OK"

\* String.prototype.trim on a character sequence.
RECURSIVE TrimLeft(_)
TrimLeft(n) == IF n # << >> /\ Head(n) = " " THEN TrimLeft(Tail(n)) ELSE n
RECURSIVE TrimRight(_)
TrimRight(n) ==
    IF n # << >> /\ n[Len(n)] = " " THEN TrimRight(SubSeq(n, 1, Len(n) - 1)) ELSE n
Trim(n) == TrimRight(TrimLeft(n))

\* The body validation of PATCH: the name to store, or the rejection code.
PatchName(body) == IF body.kind = "name" THEN Trim(body.name) ELSE << >>
\* Reading body.name of null throws a TypeError, which the route's catch-all
\* answers with UPDATE_ERROR.
PatchCheck(body) ==
    IF body.kind = "badjson" THEN "INVALID_BODY"
    ELSE IF body.kind = "null" THEN "UPDATE_ERROR"
    ELSE IF PatchName(body) = << >> THEN "NAME_REQUIRED"
    ELSE IF Len(PatchName(body)) > MAX_NAME_LENGTH THEN "NAME_TOO_LONG"
    ELSE "OK"
PatchStatus(code) == IF code = "UPDATE_ERROR" THEN 500 ELSE 400

\* ------------------------------------------------------------------------
\* Handlers
\* ------------------------------------------------------------------------

\* The handler moves on to position p with locals l.  The credentials were
\* read by resolveUser; from here on the handler only reads its locals, the
\* kind, the id and the file.
ContinueWith(s, q, p, l) ==
    /\ pc' = [pc EXCEPT ![s] = p]
    /\ loc' = [loc EXCEPT ![s] = l]
    /\ req' = [req EXCEPT ![s] = [q EXCEPT !.session = None, !.cookie = NoCookie]]
    /\ UNCHANGED resp

Continue(s, p, l) == ContinueWith(s, req[s], p, l)

\* Uploads that have not yet drawn their conversionId.
PendingUploads == {t \in Slots : req[t].kind = "upload"
                                 /\ pc[t] \in {"mergeReassign", "mergeDelete", "uploadBegin"}}

\* A request arrives: the route checks that the id is not empty (gated
\* routes), reads the session and the guest cookie and decides the identity.
\* Inputs the handler reads later (the value of a non-empty id, the PATCH
\* body, the uploaded file) are drawn where they are first read.
Begin(s, kind, id, session, cookie, budget) ==
    LET guestUserId == readGuestCookie(cookie)
        ru == resolveUser(session, guestUserId)
        needGuest == kind = "upload" /\ ru.userId = None
        fresh == CHOOSE g \in GuestIds \ everGuest : TRUE
        r == [NoReq EXCEPT !.kind = kind, !.id = id, !.session = session, !.cookie = cookie]
        raced == ru.merge /\ \E t \in Slots \ {s} :
                     /\ pc[t] \in {"mergeReassign", "mergeDelete"}
                     /\ loc[t].guestUserId = guestUserId
    IN
    /\ pc[s] = "idle"
    /\ started < budget
    /\ started' = started + 1
    /\ needGuest => everGuest # GuestIds
    /\ kind = "upload" => nextPath + Cardinality(PendingUploads) <= MaxUploads
    /\ req' = [req EXCEPT ![s] = r]
    /\ IF kind \in GatedKinds /\ IdCheck(id) # "OK"
       THEN /\ resp' = [resp EXCEPT ![s] = errorResponse(IdCheck(id), GateStatus(IdCheck(id)))]
            /\ pc' = [pc EXCEPT ![s] = "done"]
            /\ loc' = [loc EXCEPT ![s] = NoLoc]
            /\ UNCHANGED everGuest
       ELSE /\ resp' = [resp EXCEPT ![s] = NoResp]
            /\ loc' = [loc EXCEPT ![s] =
                  [NoLoc EXCEPT !.user = ru, !.guestUserId = guestUserId,
                                !.newGuest = IF needGuest THEN fresh ELSE None,
                                !.raced = raced,
                                !.arrived = IF ru.merge
                                            THEN reassignUser(conv, guestUserId)
                                            ELSE {}]]
            /\ pc' = [pc EXCEPT ![s] = IF ru.merge THEN "mergeReassign" ELSE AfterResolve(kind)]
            /\ everGuest' = IF needGuest THEN everGuest \cup {fresh} ELSE everGuest
    /\ UNCHANGED <<users, tokens, held, conv, blobs, nextPath, nextRec, run>>

Start(s, kinds, cookies, budget) ==
    \E kind \in kinds, session \in AuthIds \cup {None}, cookie \in cookies :
        \/ /\ kind \notin GatedKinds
           /\ Begin(s, kind, EmptyId, session, cookie, budget)
        \/ /\ kind \in GatedKinds
           /\ \E id \in {EmptyId, SomeId} : Begin(s, kind, id, session, cookie, budget)

\* mergeGuestUser, first statement of the transaction: reassignUser.  The
\* rows it matches are updated inside the transaction; a database failure
\* aborts the transaction and is rethrown to the route's catch-all.
MergeReassign(s) ==
    /\ pc[s] = "mergeReassign"
    /\ \E fault \in BOOLEAN :
        IF fault
        THEN /\ MergeCatch("OTHER") = "rethrow"
             /\ Respond(s, errorResponse(CatchAllCode(req[s].kind), 500), "failed")
        ELSE Continue(s, "mergeDelete",
                      [loc[s] EXCEPT !.txRows = reassignUser(conv, loc[s].guestUserId)])
    /\ UNCHANGED <<users, everGuest, tokens, held, conv, blobs, nextPath, nextRec, started, run>>

\* mergeGuestUser, second statement and commit: the guest row is deleted and
\* both effects become visible together; a missing row (P2025) rolls the
\* transaction back and is swallowed; any other failure rolls it back and
\* is rethrown.
MergeDelete(s) ==
    LET g == loc[s].guestUserId
        left == {r \in DOMAIN conv : conv[r].userId = g} \ loc[s].txRows
    IN
    /\ pc[s] = "mergeDelete"
    /\ \E fault \in BOOLEAN :
        LET code == IF fault THEN "OTHER"
                    ELSE IF ~GuestUserFound(users, g) THEN "P2025"
                    ELSE IF OwnerReferenceEnforced /\ left # {} THEN "P2003"
                    ELSE "OK"
        IN
        IF code = "OK"
        THEN /\ conv' = ApplyReassign(conv, loc[s].txRows, loc[s].user.userId)
             /\ users' = users \ {g}
             /\ Continue(s, AfterResolve(req[s].kind),
                         [loc[s] EXCEPT !.mergeResult = "committed", !.txRows = {}])
        ELSE IF MergeCatch(code) = "swallow"
        THEN /\ Continue(s, AfterResolve(req[s].kind),
                         [loc[s] EXCEPT !.mergeResult = "swallowed", !.txRows = {}])
             /\ UNCHANGED <<conv, users>>
        ELSE /\ Respond(s, errorResponse(CatchAllCode(req[s].kind), 500),
                        IF code = "OTHER" THEN "failed" ELSE "threw")
             /\ UNCHANGED <<conv, users>>
    /\ UNCHANGED <<everGuest, tokens, held, blobs, nextPath, nextRec, started, run>>

\* authorizeConversionAccess after resolveUser: findById and the ownership
\* check, followed by the part of the route that needs no further I/O.
LookupAs(s, id, body) ==
    LET c == findById(conv, id)
        gate == OwnershipGate(loc[s].user, c)
        clear == loc[s].user.shouldClearGuestCookie
        m == loc[s].mergeResult
        kind == req[s].kind
        q == [req[s] EXCEPT !.id = id, !.body = body]
    IN
    /\ pc[s] = "lookup"
    /\ req[s].id = SomeId
    /\ IF gate # "OK"
       THEN RespondTo(s, q, errorResponse(gate, GateStatus(gate)), m)
       ELSE CASE kind = "get" ->
                   RespondTo(s, q, maybeClearGuestCookie(
                                       successResponse(<<toProcessedImage(c)>>, 200), clear), m)
              [] kind = "patch" ->
                   IF PatchCheck(body) # "OK"
                   THEN RespondTo(s, q, errorResponse(PatchCheck(body),
                                                      PatchStatus(PatchCheck(body))), m)
                   ELSE ContinueWith(s, q, "update", [loc[s] EXCEPT !.name = PatchName(body)])
              [] kind = "delete" ->
                   ContinueWith(s, q, "delProcessed", [loc[s] EXCEPT !.conversion = c])
              [] OTHER ->
                   ContinueWith(s, q, "fetch", [loc[s] EXCEPT !.conversion = c])
    /\ UNCHANGED <<users, everGuest, tokens, held, conv, blobs, nextPath, nextRec, started, run>>

Lookup(s) ==
    \E id \in RecIds :
        \E body \in IF req[s].kind = "patch" THEN PatchBodies ELSE {NoBody} :
            LookupAs(s, id, body)

\* PATCH: conversionRepository.updateName; the update throws when the row
\* is gone, which the route turns into UPDATE_ERROR.
Update(s) ==
    LET id == req[s].id
        m == loc[s].mergeResult
    IN
    /\ pc[s] = "update"
    /\ IF id \in DOMAIN conv
       THEN /\ conv' = [conv EXCEPT ![id].name = loc[s].name]
            /\ Respond(s, maybeClearGuestCookie(
                             successResponse(<<toProcessedImage(conv'[id])>>, 200),
                             loc[s].user.shouldClearGuestCookie), m)
       ELSE /\ Respond(s, errorResponse(CatchAllCode("patch"), 500), m)
            /\ UNCHANGED conv
    /\ UNCHANGED <<users, everGuest, tokens, held, blobs, nextPath, nextRec, started, run>>

\* DELETE: blobStorageService.delete of the processed blob.
DelProcessed(s) ==
    /\ pc[s] = "delProcessed"
    /\ \E ok \in BOOLEAN :
        IF ok
        THEN /\ blobs' = blobs \ {loc[s].conversion.processedBlobUrl}
             /\ Continue(s, "delOriginal", loc[s])
        ELSE /\ Respond(s, errorResponse(CatchAllCode("delete"), 500), loc[s].mergeResult)
             /\ UNCHANGED blobs
    /\ UNCHANGED <<users, everGuest, tokens, held, conv, nextPath, nextRec, started, run>>

\* DELETE: blobStorageService.delete of the original blob.
DelOriginal(s) ==
    /\ pc[s] = "delOriginal"
    /\ \E ok \in BOOLEAN :
        IF ok
        THEN /\ blobs' = blobs \ {loc[s].conversion.originalBlobUrl}
             /\ Continue(s, "delRecord", loc[s])
        ELSE /\ Respond(s, errorResponse(CatchAllCode("delete"), 500), loc[s].mergeResult)
             /\ UNCHANGED blobs
    /\ UNCHANGED <<users, everGuest, tokens, held, conv, nextPath, nextRec, started, run>>

\* DELETE: conversionRepository.deleteById; throws when the row is gone.
DelRecordKeep(s) ==
    /\ pc[s] = "delRecord"
    /\ Respond(s, maybeClearGuestCookie(successResponse(<< >>, 200),
                                        loc[s].user.shouldClearGuestCookie),
               loc[s].mergeResult)
    /\ UNCHANGED <<users, everGuest, tokens, held, conv, blobs, nextPath, nextRec, started, run>>

DelRecord(s) ==
    LET id == req[s].id
        m == loc[s].mergeResult
    IN
    /\ pc[s] = "delRecord"
    /\ IF id \in DOMAIN conv
       THEN /\ conv' = [r \in DOMAIN conv \ {id} |-> conv[r]]
            /\ Respond(s, maybeClearGuestCookie(successResponse(<< >>, 200),
                                                loc[s].user.shouldClearGuestCookie), m)
       ELSE /\ Respond(s, errorResponse(CatchAllCode("delete"), 500), m)
            /\ UNCHANGED conv
    /\ UNCHANGED <<users, everGuest, tokens, held, blobs, nextPath, nextRec, started, run>>

\* The 200 response of the proxy: the bytes and the content headers.
BytesResponse(url, contentType, name) ==
    [NoResp EXCEPT !.status = 200, !.code = "OK", !.bytes = <<"bytes", url[2], url[3]>>,
                   !.contentType = contentType, !.filename = name]

\* new BlobStorageError(operation, message, { cause }): the message carries
\* what the failed call reported, which may name the address.
BlobStorageError(operation, url, cause) ==
    [operation |-> operation, url |-> url, cause |-> cause]
NoBlobError == BlobStorageError("none", NoUrl, "none")

\* What can go wrong with the fetch of a blob: the request is rejected, the
\* store answers with a status that is not ok, the body cannot be read.
FetchFaults == {"none", "network", "status", "body"}

\* fetchBlob: the bytes at the address, or a BlobStorageError.
fetchBlob(bs, url, fault) ==
    IF fault # "none" THEN [ok |-> FALSE, error |-> BlobStorageError("fetch", url, fault)]
    ELSE IF url \notin bs THEN [ok |-> FALSE, error |-> BlobStorageError("fetch", url, "status")]
    ELSE [ok |-> TRUE, error |-> NoBlobError]

\* The catch of serveImageProxy: the error is logged, the response is fixed.
ProxyCatchEcho(error) ==
    [errorResponse("FILE_RETRIEVAL_ERROR", 500) EXCEPT !.bytes = error.url]

ProxyCatch(error) == errorResponse("FILE_RETRIEVAL_ERROR", 500)

\* serveImageProxy: fetchBlob of the selected address and the byte response.
Fetch(s) ==
    LET c == loc[s].conversion
        url == IF req[s].kind = "original" THEN c.originalBlobUrl ELSE c.processedBlobUrl
        ctype == IF req[s].kind = "original" THEN c.originalContentType
                 ELSE c.processedContentType
        m == loc[s].mergeResult
    IN
    /\ pc[s] = "fetch"
    /\ \E fault \in FetchFaults :
        LET got == fetchBlob(blobs, url, fault) IN
        IF got.ok
        THEN Respond(s, maybeClearGuestCookie(BytesResponse(url, ctype, c.name),
                                              loc[s].user.shouldClearGuestCookie), m)
        ELSE Respond(s, ProxyCatch(got.error), m)
    /\ UNCHANGED <<users, everGuest, tokens, held, conv, blobs, nextPath, nextRec, started, run>>

\* findByUserId: the user's records, newest first.
RECURSIVE NewestFirst(_, _)
NewestFirst(cv, ids) ==
    IF ids = {} THEN << >>
    ELSE LET top == CHOOSE r \in ids : \A q \in ids : cv[q].createdAt <= cv[r].createdAt
         IN <<cv[top]>> \o NewestFirst(cv, ids \ {top})

findByUserIdAny(cv, userId) == NewestFirst(cv, DOMAIN cv)

findByUserId(cv, userId) == NewestFirst(cv, {r \in DOMAIN cv : cv[r].userId = userId})

\* GET list: 401 without an identity, else the projections of the records
\* found for the resolved user.
List(s) ==
    LET found == findByUserId(conv, loc[s].user.userId)
        m == loc[s].mergeResult
    IN
    /\ pc[s] = "list"
    /\ IF loc[s].user.userId = None
       THEN Respond(s, errorResponse("UNAUTHORIZED", 401), m)
       ELSE Respond(s, maybeClearGuestCookie(
                           successResponse([i \in 1..Len(found) |-> toProcessedImage(found[i])], 200),
                           loc[s].user.shouldClearGuestCookie), m)
    /\ UNCHANGED <<users, everGuest, tokens, held, conv, blobs, nextPath, nextRec, started, run>>

\* POST upload: createGuestUser when nobody was resolved, then the file
\* checks.
UploadBeginStoreFirst(s, file) ==
    LET g == loc[s].newGuest
        check == validateImageFile(file)
        create == loc[s].user.userId = None
        user == IF create
                THEN [userId |-> g, isGuest |-> TRUE, shouldClearGuestCookie |-> FALSE,
                      merge |-> FALSE]
                ELSE loc[s].user
    IN
    /\ pc[s] = "uploadBegin"
    /\ users' = IF create THEN users \cup {g} ELSE users
    /\ blobs' = blobs \cup {BlobUrl("originals", nextPath)}
    /\ nextPath' = nextPath + 1
    /\ IF check # "OK"
       THEN Respond(s, errorResponse(check, 400), loc[s].mergeResult)
       ELSE ContinueWith(s, [req[s] EXCEPT !.file = file], "storeOriginal",
                         [loc[s] EXCEPT !.user = user, !.path = nextPath])
    /\ UNCHANGED <<everGuest, tokens, held, conv, nextRec, started, run>>

UploadBeginWith(s, file) ==
    LET g == loc[s].newGuest
        check == validateImageFile(file)
        create == loc[s].user.userId = None
        user == IF create
                THEN [userId |-> g, isGuest |-> TRUE, shouldClearGuestCookie |-> FALSE,
                      merge |-> FALSE]
                ELSE loc[s].user
    IN
    /\ pc[s] = "uploadBegin"
    /\ users' = IF create THEN users \cup {g} ELSE users
    /\ IF check # "OK"
       THEN /\ Respond(s, errorResponse(check, 400), loc[s].mergeResult)
            /\ UNCHANGED nextPath
       ELSE /\ ContinueWith(s, [req[s] EXCEPT !.file = file], "storeOriginal",
                            [loc[s] EXCEPT !.user = user, !.path = nextPath])
            /\ nextPath' = nextPath + 1
    /\ UNCHANGED <<everGuest, tokens, held, conv, blobs, nextRec, started, run>>

UploadBegin(s) == \E file \in UploadFiles : UploadBeginWith(s, file)

\* POST upload: the original bytes are stored under originals/<conversionId>.
StoreOriginal(s) ==
    /\ pc[s] = "storeOriginal"
    /\ \E ok \in BOOLEAN :
        IF ok
        THEN /\ blobs' = blobs \cup {BlobUrl("originals", loc[s].path)}
             /\ Continue(s, "pipeline", loc[s])
        ELSE /\ Respond(s, errorResponse("STORAGE_ERROR", 500), loc[s].mergeResult)
             /\ UNCHANGED blobs
    /\ UNCHANGED <<users, everGuest, tokens, held, conv, nextPath, nextRec, started, run>>

\* POST upload: the pipeline is constructed and executed on the uploaded
\* bytes; a PipelineStepError is answered with its own code and status.
RunPipeline(s) ==
    /\ pc[s] = "pipeline"
    /\ ImageProcessingPipeline(UploadSteps) = "OK"
    /\ \E image \in Images, script \in UploadScripts :
        LET out == execute(UploadSteps, image, script) IN
        IF out.ok
        THEN Continue(s, "storeProcessed", [loc[s] EXCEPT !.ran = out.log])
        ELSE Respond(s, errorResponse(out.error.code, out.error.statusCode),
                     loc[s].mergeResult)
    /\ UNCHANGED <<users, everGuest, tokens, held, conv, blobs, nextPath, nextRec, started, run>>

\* POST upload: the processed bytes are stored under images/<conversionId>.
StoreProcessed(s) ==
    /\ pc[s] = "storeProcessed"
    /\ \E ok \in BOOLEAN :
        IF ok
        THEN /\ blobs' = blobs \cup {BlobUrl("images", loc[s].path)}
             /\ Continue(s, "createRecord", loc[s])
        ELSE /\ Respond(s, errorResponse("STORAGE_ERROR", 500), loc[s].mergeResult)
             /\ UNCHANGED blobs
    /\ UNCHANGED <<users, everGuest, tokens, held, conv, nextPath, nextRec, started, run>>

\* ConversionRepository.create: the row inserted for the upload.
NewConversionSwapped(id, userId, file, path, now) ==
    [id |-> id, userId |-> userId, name |-> file.name,
     originalBlobUrl |-> BlobUrl("images", path),
     processedBlobUrl |-> BlobUrl("originals", path),
     originalContentType |-> file.type, processedContentType |-> file.type,
     createdAt |-> now]

NewConversion(id, userId, file, path, now) ==
    [id |-> id, userId |-> userId, name |-> file.name,
     originalBlobUrl |-> BlobUrl("originals", path),
     processedBlobUrl |-> BlobUrl("images", path),
     originalContentType |-> file.type, processedContentType |-> "image/png",
     createdAt |-> now]

\* POST upload: the record is created and the 201 response built; the guest
\* cookie is cleared after a merge, or set for a newly created guest.
CreateRecord(s) ==
    LET id == nextRec
        c == NewConversion(id, loc[s].user.userId, req[s].file, loc[s].path, nextRec)
        base == successResponse(<<toProcessedImage(c)>>, 201)
        m == loc[s].mergeResult
    IN
    /\ pc[s] = "createRecord"
    /\ IF OwnerReferenceEnforced /\ loc[s].user.userId \notin users
       THEN /\ Respond(s, errorResponse(CatchAllCode("upload"), 500), m)
            /\ UNCHANGED <<conv, nextRec, tokens, held>>
       ELSE /\ conv' = conv @@ (id :> c)
            /\ nextRec' = nextRec + 1
            /\ IF loc[s].user.shouldClearGuestCookie
               THEN /\ Respond(s, maybeClearGuestCookie(base, TRUE), m)
                    /\ UNCHANGED <<tokens, held>>
               ELSE IF loc[s].newGuest # None
               THEN /\ Respond(s, [base EXCEPT !.setCookie = loc[s].newGuest], m)
                    /\ tokens' = tokens \cup {loc[s].newGuest}
                    /\ held' = held \cup {loc[s].newGuest}
               ELSE /\ Respond(s, base, m)
                    /\ UNCHANGED <<tokens, held>>
    /\ UNCHANGED <<users, everGuest, blobs, nextPath, started, run>>

\* ------------------------------------------------------------------------
\* Specifications
\* ------------------------------------------------------------------------

\* The response reaches the client, which drops the guest cookie when told
\* to; the slot is free for the next request.
Finish(s) ==
    /\ pc[s] = "done"
    /\ pc' = [pc EXCEPT ![s] = "idle"]
    /\ req' = [req EXCEPT ![s] = NoReq]
    /\ loc' = [loc EXCEPT ![s] = NoLoc]
    /\ resp' = [resp EXCEPT ![s] = NoResp]
    /\ held' = IF resp[s].clear THEN held \ {loc[s].guestUserId} ELSE held
    /\ UNCHANGED <<users, everGuest, tokens, conv, blobs, nextPath, nextRec, started, run>>

\* The steps of the handlers that work on the caller's own identity: upload
\* and list, with the merge they may run.
IdentityStep(s) ==
    \/ Finish(s)
    \/ MergeReassign(s)
    \/ MergeDelete(s)
    \/ List(s)
    \/ UploadBegin(s)
    \/ StoreOriginal(s)
    \/ RunPipeline(s)
    \/ StoreProcessed(s)
    \/ CreateRecord(s)

\* The steps of the handlers behind the ownership gate.
GatedStep(s) ==
    \/ Lookup(s)
    \/ Update(s)
    \/ DelProcessed(s)
    \/ DelOriginal(s)
    \/ DelRecord(s)
    \/ Fetch(s)

\* Requests of two slots interleave: uploads and listings, with the cookies
\* clients were sent.
Next == \E s \in Slots : Start(s, Kinds \ GatedKinds, CookieInputsSent, MaxRequests) \/ IdentityStep(s)

Spec == Init /\ [][Next]_vars

\* One request at a time, every route, with every kind of cookie.
SeqNext == Start("s1", Kinds, CookieInputs, MaxSeqRequests) \/ IdentityStep("s1") \/ GatedStep("s1")

SeqSpec == Init /\ [][SeqNext]_vars

\* Pipeline runs: sequences over S of length at most n.
SeqsUpTo(S, n) == UNION {[1..k -> S] : k \in 0..n}

\* The runs under test: every step list up to MaxSteps on every image with
\* every script of coarse replies up to MaxScript, and the background-
\* removal step alone with every script of maxRetries + 1 replies.
PipeInit ==
    /\ InitStore
    /\ \/ \E l \in SeqsUpTo(StepNames, MaxSteps), b \in Images,
             sc \in SeqsUpTo(CoarseReplies, MaxScript) :
               run = [NoRun EXCEPT !.unit = "pipeline", !.phase = "new", !.steps = l,
                                   !.image = b, !.script = sc]
       \/ \E b \in Images, sc \in [1..(maxRetries + 1) -> Replies] :
               run = [NoRun EXCEPT !.unit = "step", !.phase = "new",
                                   !.steps = <<BackgroundRemovalName>>,
                                   !.image = b, !.script = sc]

store == <<users, everGuest, tokens, held, conv, blobs, nextPath, nextRec, pc, req, loc, resp, started>>

\* new ImageProcessingPipeline(steps)
Construct ==
    /\ run.unit = "pipeline"
    /\ run.phase = "new"
    /\ run' = [run EXCEPT !.phase = IF ImageProcessingPipeline(run.steps) = "OK"
                                    THEN "built" ELSE "rejected"]
    /\ UNCHANGED store

\* pipeline.execute(image)
Execute ==
    /\ run.unit = "pipeline"
    /\ run.phase = "built"
    /\ run' = [run EXCEPT !.phase = "executed",
                          !.out = execute(run.steps, run.image, run.script)]
    /\ UNCHANGED store

\* new BackgroundRemovalStep().process(image)
Process ==
    /\ run.unit = "step"
    /\ run.phase = "new"
    /\ run' = [run EXCEPT !.phase = "processed", !.out = process(run.image, run.script)]
    /\ UNCHANGED store

PipeNext == Construct \/ Execute \/ Process

PipeSpec == PipeInit /\ [][PipeNext]_vars

\* ------------------------------------------------------------------------
\* Properties
\* ------------------------------------------------------------------------

\* C1: a metadata read, rename, delete or byte-serving request for record r
\* gets past its ownership check only if, at that moment, r's userId is the
\* id of the identity resolved for the request; what the request then
\* returns or changes is r and nothing else.
C1_OwnerOnly ==
    [][\A s \in Slots :
        /\ ( /\ pc[s] = "lookup"
             /\ \/ pc'[s] \in {"update", "delProcessed", "fetch"}
                \/ pc'[s] = "done" /\ resp'[s].code \notin {"UNAUTHORIZED", "NOT_FOUND", "FORBIDDEN"} )
           => /\ loc[s].user.userId # None
              /\ req'[s].id \in DOMAIN conv
              /\ conv[req'[s].id].userId = loc[s].user.userId
        /\ (pc[s] \in {"lookup", "update"} /\ pc'[s] = "done" /\ resp'[s].status = 200)
           => \A i \in 1..Len(resp'[s].items) : resp'[s].items[i].id = req'[s].id
        /\ (pc[s] = "fetch" /\ pc'[s] = "done" /\ resp'[s].status = 200)
           => LET c == loc[s].conversion
                  url == IF req[s].kind = "original" THEN c.originalBlobUrl
                         ELSE c.processedBlobUrl
              IN /\ c.id = req[s].id
                 /\ resp'[s].bytes = <<"bytes", url[2], url[3]>>
        /\ (pc[s] \in {"update", "delProcessed", "delOriginal", "delRecord"} /\ pc'[s] # pc[s])
           => /\ \A r \in DOMAIN conv \ {req[s].id} : r \in DOMAIN conv' /\ conv'[r] = conv[r]
              /\ blobs \ blobs' \subseteq {loc[s].conversion.originalBlobUrl,
                                           loc[s].conversion.processedBlobUrl}
      ]_vars

\* C1 witness: a gated request has succeeded on its record while another
\* identity owns a record too.
C1_Witness ==
    \E s \in Slots :
        /\ pc[s] = "done" /\ req[s].kind \in GatedKinds /\ resp[s].status = 200
        /\ \E r, q \in DOMAIN conv : conv[r].userId # conv[q].userId

\* C2: the gate checks, in this order, empty id (400), no identity (401),
\* no record (404), foreign record (403), and answers with the first that
\* fails; the record is handed on only when all four pass.
C2_GateOrder ==
    [][\A s \in Slots :
        /\ (pc[s] = "idle" /\ pc'[s] # "idle" /\ req'[s].kind \in GatedKinds)
           => IF req'[s].id = EmptyId
              THEN pc'[s] = "done" /\ resp'[s].status = 400 /\ resp'[s].code = "ID_REQUIRED"
              ELSE pc'[s] # "done"
        /\ (pc[s] = "lookup" /\ pc'[s] # "lookup")
           => LET id == req'[s].id
                  u == loc[s].user.userId
              IN IF u = None
                 THEN pc'[s] = "done" /\ resp'[s].status = 401 /\ resp'[s].code = "UNAUTHORIZED"
                 ELSE IF id \notin DOMAIN conv
                 THEN pc'[s] = "done" /\ resp'[s].status = 404 /\ resp'[s].code = "NOT_FOUND"
                 ELSE IF conv[id].userId # u
                 THEN pc'[s] = "done" /\ resp'[s].status = 403 /\ resp'[s].code = "FORBIDDEN"
                 ELSE /\ resp'[s].status \notin {400, 401, 403, 404} \/ req'[s].kind = "patch"
                      /\ resp'[s].code \notin {"ID_REQUIRED", "UNAUTHORIZED", "NOT_FOUND", "FORBIDDEN"}
                      /\ pc'[s] \in {"delProcessed", "fetch"} => loc'[s].conversion = conv[id]
      ]_vars

\* C2 witness: an existing record was asked for by another identity and the
\* answer was 403.
C2_Witness ==
    \E s \in Slots :
        /\ pc[s] = "done" /\ resp[s].code = "FORBIDDEN"
        /\ req[s].id \in DOMAIN conv

\* C3: no response of any endpoint carries a blob-store address; the URLs
\* it carries are the proxy URLs derived from the record id.
C3_NoBlobAddress ==
    \A s \in Slots :
        /\ resp[s].bytes \notin BlobAddrs
        /\ resp[s].filename \notin BlobAddrs
        /\ \A i \in 1..Len(resp[s].items) :
              LET item == resp[s].items[i] IN
              /\ item.url \notin BlobAddrs
              /\ item.originalUrl \notin BlobAddrs
              /\ item.name \notin BlobAddrs
              /\ item.url = ProxyUrl("processed", item.id)
              /\ item.originalUrl = ProxyUrl("original", item.id)

\* C3 witness: a response lists a record whose blobs are in the store.
C3_Witness ==
    \E s \in Slots :
        /\ pc[s] = "done" /\ Len(resp[s].items) > 0
        /\ resp[s].items[1].id \in DOMAIN conv
        /\ conv[resp[s].items[1].id].processedBlobUrl \in blobs

\* C4: in every reachable state every record's userId is the id of a user
\* that exists; no record is orphaned.
C4_NoOrphan ==
    \A r \in DOMAIN conv : conv[r].userId \in users

\* C5: a merge that fails for a reason other than "guest already gone"
\* changes nothing; a merge never reassigns some but not all of the guest's
\* records, and never deletes the guest while records still point at it.
C5_MergeAtomic ==
    [][\A s \in Slots :
        (pc[s] \in {"mergeReassign", "mergeDelete"} /\ pc'[s] # pc[s])
        => LET a == loc[s].guestUserId IN
           /\ loc'[s].mergeResult \in {"failed", "threw"} => conv' = conv /\ users' = users
           /\ (\E r \in DOMAIN conv : conv[r].userId = a /\ conv'[r].userId # a)
              => \A r \in DOMAIN conv' : conv'[r].userId # a
           /\ (a \in users /\ a \notin users')
              => \A r \in DOMAIN conv' : conv'[r].userId # a
      ]_vars

\* C6: in the store reached by any step, mergeGuestUser(a, b) run twice in
\* sequence ends in the state one run ends in and neither run throws; when a
\* exists at the first run that state has a's records owned by b, the other
\* records untouched and a absent.  A merge that finds the guest row gone
\* returns without error and leaves the store as it was.
C6_MergeIdempotent ==
    [][/\ \A a \in GuestIds, b \in AuthIds :
            LET once == mergeGuestUser(conv', users', a, b)
                twice == mergeGuestUser(once.conv, once.users, a, b)
            IN /\ ~once.threw /\ ~twice.threw
               /\ twice.conv = once.conv /\ twice.users = once.users
               /\ a \in users'
                  => /\ a \notin once.users
                     /\ once.users = users' \ {a}
                     /\ DOMAIN once.conv = DOMAIN conv'
                     /\ \A r \in DOMAIN conv' :
                           IF conv'[r].userId = a
                           THEN once.conv[r] = [conv'[r] EXCEPT !.userId = b]
                           ELSE once.conv[r] = conv'[r]
       /\ \A s \in Slots :
            (pc[s] = "mergeDelete" /\ pc'[s] # "mergeDelete" /\ loc[s].guestUserId \notin users)
            => /\ loc'[s].mergeResult \in {"swallowed", "failed"}
               /\ conv' = conv /\ users' = users
      ]_vars

\* C6 witness: a second merge of the same guest has returned after the
\* first one moved the guest's record to the user.
C6_Witness ==
    \E s \in Slots :
        /\ loc[s].mergeResult = "swallowed"
        /\ loc[s].guestUserId \in tokens \ users
        /\ \E r \in DOMAIN conv : conv[r].userId \in AuthIds

\* C7: when two requests with the same guest cookie and the same session
\* run the merge concurrently, neither merge reports an error and afterwards
\* no record is owned by the guest and the guest is absent.
C7_ConcurrentMerge ==
    \A s, t \in Slots :
        ( /\ s # t
          /\ loc[t].raced
          /\ loc[s].guestUserId = loc[t].guestUserId
          /\ loc[s].mergeResult \in {"committed", "swallowed", "threw"}
          /\ loc[t].mergeResult \in {"committed", "swallowed", "threw"} )
        => /\ loc[s].mergeResult # "threw" /\ loc[t].mergeResult # "threw"
           /\ loc[t].guestUserId \notin users
           /\ \A r \in DOMAIN conv : conv[r].userId # loc[t].guestUserId

\* C8: whenever the merge returns without throwing, the swallowed P2025 path
\* included, no record is owned by the guest and the guest does not exist.
C8_MergePostcondition ==
    [][\A s \in Slots :
        ( /\ pc[s] = "mergeDelete" /\ pc'[s] # "mergeDelete"
          /\ loc'[s].mergeResult \in {"committed", "swallowed"} )
        => /\ loc[s].guestUserId \notin users'
           /\ \A r \in DOMAIN conv' : conv'[r].userId # loc[s].guestUserId
      ]_vars

\* C9: the resolution table.  Session without a valid cookie: the session
\* user, no merge, no clear.  Session and valid cookie: the session user,
\* the merge of (cookie id, session id) started, clear signalled.  Valid
\* cookie alone: the guest, no merge, no clear.  Neither: nobody, no merge.
\* The handler goes on only after the merge has returned, and the merge is
\* entered at most once per request.
C9_ResolutionTable ==
    [][\A s \in Slots :
        /\ (pc[s] = "idle" /\ pc'[s] \notin {"idle", "done"})
           => LET sid == req'[s].session
                  c == req'[s].cookie
                  valid == c.present /\ c.sigOk /\ ~c.expired /\ c.isGuest
                  u == loc'[s].user
                  merging == pc'[s] = "mergeReassign"
              IN CASE sid # None /\ ~valid ->
                        /\ u.userId = sid /\ ~u.isGuest /\ ~u.shouldClearGuestCookie
                        /\ ~merging
                   [] sid # None /\ valid ->
                        /\ u.userId = sid /\ ~u.isGuest /\ u.shouldClearGuestCookie
                        /\ merging /\ loc'[s].guestUserId = c.sub
                   [] sid = None /\ valid ->
                        /\ u.userId = c.sub /\ u.isGuest /\ ~u.shouldClearGuestCookie
                        /\ ~merging
                   [] OTHER ->
                        /\ u = NoUser
                        /\ ~merging
        /\ (pc'[s] # pc[s] /\ pc'[s] \in {"uploadBegin", "list", "lookup"})
           => \/ pc[s] = "idle" /\ loc'[s].mergeResult = "none"
              \/ pc[s] = "mergeDelete" /\ loc'[s].mergeResult \in {"committed", "swallowed"}
        /\ (pc'[s] # pc[s] /\ pc'[s] = "mergeReassign") => pc[s] = "idle"
        /\ (pc'[s] # pc[s] /\ pc'[s] = "mergeDelete") => pc[s] = "mergeReassign"
      ]_vars

\* C9 witness: resolveUser has returned the session user after a committed
\* merge, with the clear signal set.
C9_Witness ==
    \E s \in Slots :
        /\ pc[s] \in {"uploadBegin", "list", "lookup"}
        /\ loc[s].mergeResult = "committed"
        /\ loc[s].user.shouldClearGuestCookie
        /\ loc[s].user.userId \in AuthIds

\* C10: a cookie that is missing, badly signed, expired or without the
\* guest marker counts as no cookie: with a session the result is the
\* session user without merge, without a session it is nobody, and the
\* request proceeds without an error.
C10_InvalidCookieAbsent ==
    [][\A s \in Slots :
        ( /\ pc[s] = "idle" /\ pc'[s] \notin {"idle", "done"}
          /\ LET c == req'[s].cookie
             IN ~c.present \/ ~c.sigOk \/ c.expired \/ ~c.isGuest )
        => /\ loc'[s].guestUserId = None
           /\ loc'[s].user =
                 IF req'[s].session # None
                 THEN [userId |-> req'[s].session, isGuest |-> FALSE,
                       shouldClearGuestCookie |-> FALSE, merge |-> FALSE]
                 ELSE NoUser
           /\ pc'[s] = AfterResolve(req'[s].kind)
           /\ resp'[s] = NoResp
      ]_vars

\* C10 witness: an expired cookie of a real guest came without a session and
\* nobody was resolved.
C10_Witness ==
    \E s \in Slots :
        /\ pc[s] \in {"uploadBegin", "list", "lookup"}
        /\ req[s].cookie.present /\ req[s].cookie.expired
        /\ req[s].cookie.sub \in users
        /\ req[s].session = None
        /\ loc[s].user = NoUser

\* C11: a response returned by a request whose identity resolution ran a
\* merge clears the guest cookie, whatever the status of that response.
C11_MergeClearsCookie ==
    \A s \in Slots :
        (pc[s] = "done" /\ loc[s].mergeResult # "none") => resp[s].clear

\* C12: when no step fails, execute invokes every step of a non-empty list
\* exactly once, in list order, each on the output of the one before, and
\* returns the left fold of step.process over the input buffer.
C12_LeftFold ==
    LET steps == run.steps
        RECURSIVE Fold(_)
        Fold(k) == IF k = 0 THEN run.image
                   ELSE stepProcess(steps[k], Fold(k - 1), << >>).buffer
    IN
    (run.phase = "executed" /\ run.out.ok) =>
        /\ run.out.log = steps
        /\ run.out.buffer = Fold(Len(steps))

\* A full pipeline ran to the end although the upstream had to be retried.
C12_Witness ==
    /\ run.phase = "executed"
    /\ run.out.ok
    /\ run.steps = UploadSteps
    /\ run.out.calls = 2
    /\ run.out.buffer = Buffer("png", <<"png", "nobg", "flop">>)

\* C13: when step i fails, the steps invoked are exactly steps 1..i, no
\* buffer is returned, and the error thrown by execute is the error step i
\* threw on the output of step i-1, naming step i.
C13_FailFast ==
    LET steps == run.steps
        i == Len(run.out.log)
        RECURSIVE After(_)
        After(k) == IF k = 0 THEN Returned(run.image, run.script, 0, << >>)
                    ELSE stepProcess(steps[k], After(k - 1).buffer, After(k - 1).rest)
    IN
    (run.phase = "executed" /\ ~run.out.ok) =>
        /\ i \in 1..Len(steps)
        /\ run.out.log = SubSeq(steps, 1, i)
        /\ \A k \in 1..(i - 1) : After(k).ok
        /\ ~After(i).ok
        /\ run.out.error = After(i).error
        /\ run.out.error.typed
        /\ run.out.error.stepName = steps[i]
        /\ run.out.buffer = NoBuffer

\* The second of three steps failed: the third was not invoked.
C13_Witness ==
    /\ run.phase = "executed"
    /\ ~run.out.ok
    /\ run.steps = UploadSteps
    /\ run.out.log = <<FormatNormalizationName, BackgroundRemovalName>>
    /\ run.out.error = BgError("BG_REMOVAL_QUOTA_EXCEEDED", 502)

\* C14: one call of BackgroundRemovalStep.process retries min(2, number of
\* transient failures ahead of the first success or non-transient failure)
\* times: at most 3 upstream calls, none after the first success, a retry
\* only after NETWORK_ERROR, SERVICE_UNAVAILABLE or RATE_LIMITED, and
\* exactly one call when the first failure is not transient.
C14_RetryCount ==
    LET script == run.script
        out == run.out
        Transient == {"BG_REMOVAL_NETWORK_ERROR", "BG_REMOVAL_SERVICE_UNAVAILABLE",
                      "BG_REMOVAL_RATE_LIMITED"}
        Code(j) == LET r == removeBackground(run.image, script[j])
                   IN IF r.ok THEN "none" ELSE r.error.code
        leading == CHOOSE k \in 0..Len(script) :
                       /\ \A j \in 1..k : Code(j) \in Transient
                       /\ k < Len(script) => Code(k + 1) \notin Transient
        retries == Len(out.delays)
    IN
    run.phase = "processed" =>
        /\ retries = IF leading < 2 THEN leading ELSE 2
        /\ out.calls = retries + 1
        /\ out.calls <= 3
        /\ \A j \in 1..retries : Code(j) \in Transient
        /\ out.ok <=> Code(out.calls) = "none"
        /\ \A j \in 1..(out.calls - 1) : Code(j) # "none"
        /\ Code(1) \notin Transient \cup {"none"} =>
               out.calls = 1 /\ ~out.ok /\ out.error.code = Code(1)

\* Two transient failures, then the third call succeeded.
C14_Witness ==
    /\ run.phase = "processed"
    /\ run.script = <<NetworkFailure, Response(429, TRUE), Response(200, TRUE)>>
    /\ run.out.ok
    /\ run.out.calls = 3
    /\ run.out.delays = <<1000, 2000>>

\* C15: a first upstream call that ends in a network failure, any 5xx
\* response or a 429 is retried; one that ends in quota exhaustion (402,
\* 403), an image rejected as invalid (400) or a response whose body cannot
\* be read makes process fail after exactly one upstream call.
C15_TransientClasses ==
    LET first == run.script[1]
        out == run.out
        retried == out.calls >= 2
        failedAtOnce == out.calls = 1 /\ ~out.ok
    IN
    run.phase = "processed" =>
        /\ first.kind = "throw" => retried
        /\ (first.kind = "response" /\ first.status \in 500..599) => retried
        /\ (first.kind = "response" /\ first.status = 429) => retried
        /\ (first.kind = "response" /\ first.status \in {402, 403}) => failedAtOnce
        /\ (first.kind = "response" /\ first.status = 400) => failedAtOnce
        /\ (first.kind = "response" /\ ResponseOk(first) /\ ~first.body) => failedAtOnce

\* C16: whatever makes BackgroundRemovalStep.process fail, a rejected fetch
\* or an unreadable body included, the error that leaves it is a
\* PipelineStepError whose stepName is the step's own name.
C16_TypedErrors ==
    (run.phase = "processed" /\ ~run.out.ok) =>
        /\ run.out.error.typed
        /\ run.out.error.stepName = "background-removal"

\* Every call threw something that was not a PipelineStepError.
C16_Witness ==
    /\ run.phase = "processed"
    /\ run.script = <<Response(200, FALSE), NetworkFailure, Response(200, FALSE)>>
    /\ ~run.out.ok
    /\ run.out.error.code = "BG_REMOVAL_NETWORK_ERROR"

C18_UploadOrder ==
    [][\A s \in Slots :
        LET l == loc[s]
            orig == BlobUrl("originals", l.path)
            proc == BlobUrl("images", l.path)
            uses(a) == \E r \in DOMAIN conv :
                           a \in {conv[r].originalBlobUrl, conv[r].processedBlobUrl}
            moved == pc'[s] # pc[s]
        IN
        /\ (moved /\ pc'[s] = "storeOriginal") =>
               /\ pc[s] = "uploadBegin"
               /\ loc'[s].user.userId # None
               /\ l.user.userId = None =>
                      /\ loc'[s].user.userId = l.newGuest
                      /\ l.newGuest \in users'
               /\ validateImageFile(req'[s].file) = "OK"
               /\ blobs' = blobs /\ conv' = conv
        /\ (moved /\ pc'[s] = "pipeline") =>
               /\ pc[s] = "storeOriginal"
               /\ orig \notin blobs /\ blobs' = blobs \cup {orig}
               /\ ~uses(orig) /\ conv' = conv
        /\ (moved /\ pc'[s] = "storeProcessed") =>
               /\ pc[s] = "pipeline"
               /\ loc'[s].ran = <<"format-normalization", "background-removal",
                                  "horizontal-flip">>
               /\ orig \in blobs /\ proc \notin blobs
               /\ blobs' = blobs /\ conv' = conv
        /\ (moved /\ pc'[s] = "createRecord") =>
               /\ pc[s] = "storeProcessed"
               /\ blobs' = blobs \cup {proc}
               /\ ~uses(proc) /\ conv' = conv
        /\ (req[s].kind = "upload" /\ resp'[s] # resp[s] /\ resp'[s].status = 201) =>
               /\ pc[s] = "createRecord"
               /\ l.ran # << >>
               /\ \E id \in DOMAIN conv' \ DOMAIN conv :
                      /\ DOMAIN conv' = DOMAIN conv \cup {id}
                      /\ \A r \in DOMAIN conv : conv'[r] = conv[r]
                      /\ conv'[id].userId = l.user.userId
                      /\ conv'[id].originalBlobUrl = orig
                      /\ conv'[id].processedBlobUrl = proc
                      /\ {orig, proc} \subseteq blobs
                      /\ conv'[id].originalContentType = req[s].file.type
                      /\ conv'[id].processedContentType = "image/png"
        /\ (moved /\ pc[s] = "createRecord" /\ DOMAIN conv' # DOMAIN conv) =>
               resp'[s].status = 201
    ]_vars

\* An upload by a caller nobody was resolved for ended with 201 and the
\* cookie of the guest created for it.
C18_Witness ==
    \E s \in Slots :
        /\ pc[s] = "done"
        /\ req[s].kind = "upload"
        /\ resp[s].status = 201
        /\ resp[s].setCookie \in users
        /\ \E r \in DOMAIN conv :
               /\ conv[r].userId = resp[s].setCookie
               /\ {conv[r].originalBlobUrl, conv[r].processedBlobUrl} \subseteq blobs

\* C19: in every reachable state, also after an upload or a delete stopped
\* partway, both blobs of every record in the table are in the blob store
\* (a record whose delete is still running is not counted).
C19_RecordHasBlobs ==
    LET deleting == {req[s].id : s \in {t \in Slots : pc[t] \in {"delOriginal", "delRecord"}}}
    IN
    \A r \in DOMAIN conv \ deleting :
        /\ conv[r].originalBlobUrl \in blobs
        /\ conv[r].processedBlobUrl \in blobs

\* C20: when a delete answers 200 the caller owned the record, the record
\* is gone and so are both of its blobs; record ids are not used again, and
\* from then on every gated request for that id (read, rename, delete,
\* original or processed bytes) by a resolved identity is answered 404.
C20_DeletedStaysGone ==
    [][\A s \in Slots :
        LET c == loc[s].conversion
            id == req'[s].id
            created == 1..(nextRec - 1)
        IN
        /\ (pc[s] = "delRecord" /\ resp'[s].status = 200) =>
               /\ c.userId = loc[s].user.userId
               /\ c.id = req[s].id
               /\ c.id \in DOMAIN conv /\ c.id \notin DOMAIN conv'
               /\ c.originalBlobUrl \notin blobs'
               /\ c.processedBlobUrl \notin blobs'
        /\ DOMAIN conv \ DOMAIN conv' # {} =>
               \E t \in Slots : pc[t] = "delRecord" /\ resp'[t].status = 200
        /\ DOMAIN conv' \ DOMAIN conv \subseteq {nextRec}
        /\ nextRec' >= nextRec
        /\ DOMAIN conv \subseteq created
        /\ (/\ pc[s] = "lookup" /\ pc'[s] # "lookup"
            /\ id \in created \ DOMAIN conv
            /\ loc[s].user.userId # None) =>
               /\ pc'[s] = "done"
               /\ resp'[s] = errorResponse("NOT_FOUND", 404)
               /\ conv' = conv /\ blobs' = blobs
    ]_vars

\* A request for the id of a deleted record was answered 404.
C20_Witness ==
    \E s \in Slots :
        /\ pc[s] = "done"
        /\ req[s].kind \in {"get", "patch", "delete", "original", "processed"}
        /\ req[s].id \in 1..(nextRec - 1)
        /\ req[s].id \notin DOMAIN conv
        /\ resp[s].status = 404
        /\ resp[s].code = "NOT_FOUND"

\* C21: a rename that passed the gate is rejected with INVALID_BODY (400)
\* when the body cannot be parsed, with NAME_REQUIRED (400) when the name is
\* missing, not a string or empty after trimming, with NAME_TOO_LONG (400)
\* when the trimmed name has more than 255 characters, each time without
\* changing any record; otherwise the record's name becomes the trimmed
\* name and nothing else changes.
C21_RenameValidation ==
    [][\A s \in Slots :
        LET body == req'[s].body
            name == IF body.kind = "name" THEN Trim(body.name) ELSE << >>
            rejected(code) == /\ pc'[s] = "done"
                              /\ resp'[s] = errorResponse(code, 400)
                              /\ conv' = conv
        IN
        /\ (/\ pc[s] = "lookup" /\ pc'[s] # "lookup" /\ req[s].kind = "patch"
            /\ resp'[s].code \notin {"UNAUTHORIZED", "NOT_FOUND", "FORBIDDEN"}) =>
               /\ body.kind = "badjson" => rejected("INVALID_BODY")
               /\ (body.kind # "badjson" /\ name = << >>) => rejected("NAME_REQUIRED")
               /\ Len(name) > 255 => rejected("NAME_TOO_LONG")
               /\ (body.kind = "name" /\ Len(name) \in 1..255) =>
                      /\ pc'[s] = "update"
                      /\ loc'[s].name = name
                      /\ conv' = conv
        /\ (pc[s] = "update" /\ resp'[s].status = 200) =>
               conv' = [conv EXCEPT ![req[s].id].name = loc[s].name]
    ]_vars

\* C22: whenever the blob of an authorized byte request cannot be fetched,
\* whatever the address and whatever went wrong, the response is the same
\* failure envelope: status 500, code FILE_RETRIEVAL_ERROR, no bytes, no
\* address, no header taken from the record.
C22_GenericRetrievalFailure ==
    [][\A s \in Slots :
        LET c == loc[s].conversion
            url == IF req[s].kind = "original" THEN c.originalBlobUrl ELSE c.processedBlobUrl
        IN
        (pc[s] = "fetch" /\ pc'[s] = "done") =>
            /\ url \notin blobs => resp'[s].status # 200
            /\ resp'[s].status # 200 =>
                   resp'[s] = [status |-> 500, code |-> "FILE_RETRIEVAL_ERROR",
                               items |-> << >>, bytes |-> <<"none", "none", 0>>,
                               contentType |-> "none", filename |-> << >>,
                               clear |-> FALSE, setCookie |-> "none"]
    ]_vars

\* The owner asked for the bytes of a record whose blob is gone from the
\* store (a delete that failed partway) and was answered 500.
C22_Witness ==
    \E s \in Slots :
        /\ pc[s] = "done"
        /\ req[s].kind = "processed"
        /\ req[s].id \in DOMAIN conv
        /\ conv[req[s].id].processedBlobUrl \notin blobs
        /\ resp[s].code = "FILE_RETRIEVAL_ERROR"

\* C23: the constructor rejects the empty step list, so execute only ever
\* runs on a pipeline of at least one step, and what it returns went
\* through at least one step.
C23_EmptyPipelineRejected ==
    /\ run.phase = "rejected" => run.steps = << >>
    /\ run.steps = << >> => (run.phase \in {"new", "rejected"} /\ run.out = NoOut)
    /\ run.phase \in {"built", "executed"} => Len(run.steps) >= 1
    /\ (run.phase = "executed" /\ run.out.ok) =>
           /\ Len(run.out.log) >= 1
           /\ run.out.buffer # run.image

\* The construction of a pipeline without steps failed.
C23_Witness ==
    /\ run.unit = "pipeline"
    /\ run.phase = "rejected"
    /\ run.steps = << >>
    /\ run.out = NoOut

\* C24: in a request with a valid session for b and a valid guest cookie
\* for a, the merge is over when the ownership check or the listing runs:
\* every record a owned when the request arrived is then owned by b, passes
\* the ownership check of that request and is in the list it returns.
C24_MergeBeforeCheck ==
    [][\A s \in Slots :
        LET l == loc[s]
            b == l.user.userId
            mine == l.arrived \cap DOMAIN conv
        IN
        /\ (pc[s] = "list" /\ pc'[s] = "done" /\ l.mergeResult # "none") =>
               /\ resp'[s].status = 200
               /\ \A r \in mine :
                      /\ conv[r].userId = b
                      /\ \E i \in 1..Len(resp'[s].items) :
                             resp'[s].items[i] = toProcessedImage(conv[r])
        /\ (pc[s] = "lookup" /\ pc'[s] # "lookup" /\ l.mergeResult # "none"
            /\ req'[s].id \in mine) =>
               /\ conv[req'[s].id].userId = b
               /\ resp'[s].code \notin {"UNAUTHORIZED", "NOT_FOUND", "FORBIDDEN"}
    ]_vars

\* C25: the list route answers 401 with no records when nobody is resolved;
\* otherwise it returns, once each and newest first, the projections of
\* exactly the records whose userId is the resolved identity's id at that
\* moment (after the request's merge), and no record of anybody else.
C25_ListExactlyOwn ==
    [][\A s \in Slots :
        (pc[s] = "list" /\ pc'[s] = "done") =>
            LET b == loc[s].user.userId
                own == {r \in DOMAIN conv : conv[r].userId = b}
                items == resp'[s].items
            IN
            IF b = None
            THEN resp'[s].status = 401 /\ resp'[s].code = "UNAUTHORIZED" /\ items = << >>
            ELSE /\ resp'[s].status = 200
                 /\ Len(items) = Cardinality(own)
                 /\ \A r \in own : \E i \in 1..Len(items) : items[i] = toProcessedImage(conv[r])
                 /\ \A i \in 1..Len(items) : items[i].id \in own
                 /\ \A i, j \in 1..Len(items) :
                        i < j => conv[items[i].id].createdAt >= conv[items[j].id].createdAt
    ]_vars

\* C25 witness: a listing of two records, the later one first, has been
\* returned.
C25_Witness ==
    \E s \in Slots :
        /\ pc[s] = "done" /\ req[s].kind = "list" /\ resp[s].status = 200
        /\ Len(resp[s].items) = 2
        /\ resp[s].items[1].id \in DOMAIN conv /\ resp[s].items[2].id \in DOMAIN conv
        /\ conv[resp[s].items[1].id].createdAt > conv[resp[s].items[2].id].createdAt

\* C26: in every step, a record that disappears is the one an explicit
\* delete request is removing; a record that stays keeps its id, both blob
\* addresses, both content types and createdAt; its userId changes only in
\* the commit of a merge (from the merged guest to the session user) and
\* its name only in the update of a rename request for that record.
C26_RecordFrame ==
    [][\A r \in DOMAIN conv :
        /\ r \notin DOMAIN conv' =>
               \E s \in Slots : pc[s] = "delRecord" /\ req[s].kind = "delete" /\ req[s].id = r
        /\ r \in DOMAIN conv' =>
               /\ conv'[r].id = conv[r].id
               /\ conv'[r].originalBlobUrl = conv[r].originalBlobUrl
               /\ conv'[r].processedBlobUrl = conv[r].processedBlobUrl
               /\ conv'[r].originalContentType = conv[r].originalContentType
               /\ conv'[r].processedContentType = conv[r].processedContentType
               /\ conv'[r].createdAt = conv[r].createdAt
               /\ conv'[r].userId # conv[r].userId =>
                      \E s \in Slots : /\ pc[s] = "mergeDelete"
                                       /\ conv[r].userId = loc[s].guestUserId
                                       /\ conv'[r].userId = loc[s].user.userId
               /\ conv'[r].name # conv[r].name =>
                      \E s \in Slots : /\ pc[s] = "update" /\ req[s].kind = "patch"
                                       /\ req[s].id = r
                                       /\ conv'[r].name = loc[s].name
    ]_vars

\* C26 witness: one request has merged a guest's record into the session
\* user and then renamed it.
C26_Witness ==
    \E s \in Slots :
        /\ pc[s] = "done" /\ req[s].kind = "patch" /\ resp[s].status = 200
        /\ loc[s].mergeResult = "committed"
        /\ req[s].id \in DOMAIN conv
        /\ conv[req[s].id].userId \notin GuestIds
        /\ conv[req[s].id].name = <<"b">>

C28_FailedUploadCreatesNothing ==
    [][/\ \A r \in DOMAIN conv' \ DOMAIN conv :
              \E s \in Slots : /\ pc[s] = "createRecord" /\ pc'[s] = "done"
                               /\ resp'[s].status = 201
       /\ \A b \in blobs' \ blobs :
              \E s \in Slots : /\ pc[s] \in {"storeOriginal", "storeProcessed"}
                               /\ validateImageFile(req[s].file) = "OK"
       /\ \A s \in Slots :
           /\ (pc[s] \in {"uploadBegin", "storeOriginal", "pipeline", "storeProcessed"}
               /\ pc'[s] # pc[s]) => conv' = conv
           /\ (pc[s] \in {"uploadBegin", "storeOriginal", "pipeline", "storeProcessed",
                          "createRecord"}
               /\ pc'[s] = "done" /\ resp'[s].status # 201) =>
                  /\ conv' = conv
                  /\ resp'[s].status >= 400
           /\ (pc[s] = "uploadBegin" /\ pc'[s] = "done") =>
                  /\ resp'[s].code \in {"FILE_REQUIRED", "INVALID_FILE"}
                  /\ resp'[s].status = 400
                  /\ blobs' = blobs
                  /\ loc[s].path = 0 /\ loc[s].ran = << >>
           /\ (pc[s] = "uploadBegin" /\ pc'[s] = "storeOriginal") =>
                  validateImageFile(req'[s].file) = "OK"
    ]_vars

\* C28 witness: an upload has been answered with a pipeline error after its
\* original was stored, and no record exists.
C28_Witness ==
    \E s \in Slots :
        /\ pc[s] = "done" /\ req[s].kind = "upload" /\ resp[s].status = 502
        /\ blobs # {} /\ DOMAIN conv = {}

\* C29: every guest identity in the user table was created by an upload
\* that is still being handled, or its token was set as the guest cookie of
\* the response of the upload that created it, whatever that response was.
C29_GuestTokenDelivered ==
    \A g \in users \cap GuestIds :
        \/ g \in tokens
        \/ \E s \in Slots : /\ req[s].kind = "upload"
                            /\ pc[s] \notin {"idle", "done"}
                            /\ loc[s].newGuest = g

\* C30: when resolveUser returns an identity (at once, or after the merge
\* it awaited), that identity is in the user table; a guest cookie whose
\* guest a merge has deleted does not resolve to that guest.
C30_ResolvedUserExists ==
    [][\A s \in Slots :
        ( \/ pc[s] = "idle" /\ pc'[s] \notin {"idle", "mergeReassign"}
          \/ pc[s] = "mergeDelete" /\ pc'[s] \notin {"mergeDelete", "done"} )
        => ( loc'[s].user.userId # None => loc'[s].user.userId \in users' )
    ]_vars

====
